---- MODULE Spec2Model ----
(***************************************************************************)
(* Model of the order processor (internal/processor/processor.go).         *)
(*                                                                         *)
(* Process reads the input line by line, decodes each line to an Order,    *)
(* delivers the orders that match the symbol/side filter inline            *)
(* (processOrder at attempt index 0), collects the failed ones in          *)
(* retryQueue and replays that queue once after the input is consumed      *)
(* (processRetryQueue).  The program is sequential: pc is the position of  *)
(* its single thread.  The environment chooses the outcome of every        *)
(* os.Open, os.Create, scanner.Scan, client.Get, io.ReadAll and write.     *)
(*                                                                         *)
(* An order is identified by the number of its input line (order ids are   *)
(* unique within a run).  Requests are counted per processOrder call and   *)
(* per queue entry under replay; the counters and the locals of            *)
(* processOrder are cleared by the step that follows.                      *)
(***************************************************************************)
EXTENDS Integers, Sequences, FiniteSets, TLC

\* ---- bounds of the model ------------------------------------------------
MaxLines == 2
MaxRetries == 2
MaxWriteFaults == 1

\* ---- values the environment and the input are drawn from ----------------
NL == "\n"
FilterSymbol == "TSLA"
FilterSide == "sell"
Symbols == {"TSLA", "AAPL"}
Sides == {"sell", "buy"}
Statuses == {199, 200, 299, 300}
Bodies == {<<"O">>, <<NL>>}

\* One input line: blank, not valid JSON, or the JSON of an order.
LineKinds ==
  {[kind |-> "blank", Symbol |-> "", Side |-> ""],
   [kind |-> "malformed", Symbol |-> "", Side |-> ""]}
  \cup [kind : {"order"}, Symbol : Symbols, Side : Sides]

SeqsUpTo(S, n) == UNION {[1..k -> S] : k \in 0..n}

NoOrder == [OrderID |-> 0, Symbol |-> "", Side |-> ""]
NoResp == [kind |-> "none", status |-> 0, body |-> <<>>]

\* one successful delivery: the order, the body written for it, and the pass
\* ("first" or "replay") that delivered it
Delivery(id, b, who) == [OrderID |-> id, body |-> b, pass |-> who]

VARIABLES
  Retries,        \* p.Retries
  input,          \* the lines of p.InputFile
  inOpen,         \* the input handle is open
  outOpen,        \* the output handle is open
  output,         \* the bytes written to p.outputWriter
  pc,             \* position of the single thread
  caller,         \* who called processOrder: "first" (Process) or "replay"
  lineNum,        \* lineNum of Process: lines consumed by the scanner
  retryQueue,     \* retryQueue of Process
  qi,             \* index of the range loop of processRetryQueue
  retryAttempts,  \* retryAttempts of processRetryQueue
  cur,            \* order argument of the running processOrder
  retryCount,     \* retryCount argument of the running processOrder
  result,         \* return value of Process: "none" while it runs
  resp,           \* outcome of the last client.Get
  ret,            \* return value of the last finished processOrder
  callStart,      \* attempt index the running processOrder was first called with
  callReqs,       \* requests made by that call (recursion included)
  callKinds,      \* kinds of failure that call has met
  callSleeps,     \* seconds slept by that call, in order
  attempted,      \* orders for which a request has been made
  entryReqs,      \* requests made for the queue entry under replay
  entryCalls,     \* processOrder calls made for the queue entry under replay
  delivered,      \* per order: complete lines written for it
  exhausted,      \* orders reported "Exceeded maximum retries"
  writeFaults,    \* failed writes so far
  replayRuns,     \* calls of processRetryQueue so far
  failedFirst,    \* orders whose first-pass processOrder returned an error
  written,        \* the successful deliveries, in the order they completed
  entryKinds,     \* the kind of failure met for the queue entry under replay
  fault           \* the failure os.Open, os.Create or the scanner reported

cfgVars == <<Retries, input>>
fileVars == <<inOpen, outOpen>>
loopVars == <<lineNum, retryQueue, qi, retryAttempts>>
callVars == <<cur, retryCount, callStart, callReqs, callKinds, callSleeps, resp, ret>>
countVars == <<attempted, entryReqs, entryCalls, entryKinds, delivered>>
vars == <<Retries, input, inOpen, outOpen, output, pc, caller, lineNum,
          retryQueue, qi, retryAttempts, cur, retryCount, result, resp, ret,
          callStart, callReqs, callKinds, callSleeps, attempted, entryReqs,
          entryCalls, delivered, exhausted, writeFaults, replayRuns,
          failedFirst, fault>>

Orders == 1..Len(input)

\* ---- pure helpers -------------------------------------------------------

\* strings.TrimSpace(line) == ""
IsBlank(line) == line.kind = "blank"

\* json.Unmarshal([]byte(line), &order): err is set unless the line is the
\* JSON of an order; n is the line number, which stands for order_id.
Unmarshal(line, n) ==
  IF line.kind = "order"
    THEN [err |-> FALSE,
          order |-> [OrderID |-> n, Symbol |-> line.Symbol, Side |-> line.Side]]
    ELSE [err |-> TRUE, order |-> NoOrder]

MatchesEither(order) == order.Symbol = FilterSymbol \/ order.Side = FilterSide

\* order.Symbol == p.Symbol && order.Side == p.Side
Matches(order) == order.Symbol = FilterSymbol /\ order.Side = FilterSide

\* resp.StatusCode < 200 || resp.StatusCode >= 300
IsNon2xx(status) == status < 200 \/ status >= 300

CanRetryInclusive(n) == n <= Retries

\* retryCount < p.Retries
CanRetry(n) == n < Retries

\* time.Second * time.Duration(retryCount+1), in seconds
Backoff(n) == n + 1

FormatLineNoNewline(body) == body

\* fmt.Fprintf(p.outputWriter, "%s\n", string(body))
FormatLine(body) == body \o <<NL>>

ReplayMoreInclusive(n) == n <= Retries

\* for retryAttempts < p.Retries
ReplayMore(n) == n < Retries

\* the proper prefixes of a byte sequence: what a failed write may have written
ProperPrefixes(s) == {SubSeq(s, 1, k) : k \in 0..(Len(s) - 1)}

RECURSIVE CountNL(_)
CountNL(s) ==
  IF s = <<>> THEN 0
  ELSE (IF s[1] = NL THEN 1 ELSE 0) + CountNL(Tail(s))

RECURSIVE Occurrences(_, _)
Occurrences(s, id) ==
  IF s = <<>> THEN 0
  ELSE (IF s[1].OrderID = id THEN 1 ELSE 0) + Occurrences(Tail(s), id)

StrictlyIncreasing(s) == \A i \in 1..(Len(s) - 1) : s[i] < s[i + 1]

\* the one kind of failure all requests so far have met (transport errors
\* only, or non-2xx statuses only), or "mixed"
Merge(seen, kinds) ==
  IF seen \cup kinds \in {{}, {"transport"}, {"non2xx"}}
    THEN seen \cup kinds
    ELSE {"mixed"}

\* ---- state after NewProcessor -------------------------------------------
Init ==
  /\ Retries \in 0..MaxRetries
  /\ input \in SeqsUpTo(LineKinds, MaxLines)
  /\ inOpen = FALSE
  /\ outOpen = FALSE
  /\ output = <<>>
  /\ pc = "open"
  /\ caller = "none"
  /\ lineNum = 0
  /\ retryQueue = <<>>
  /\ qi = 0
  /\ retryAttempts = 0
  /\ cur = NoOrder
  /\ retryCount = 0
  /\ result = "none"
  /\ resp = NoResp
  /\ ret = "none"
  /\ callStart = 0
  /\ callReqs = 0
  /\ callKinds = {}
  /\ callSleeps = <<>>
  /\ attempted = {}
  /\ entryReqs = 0
  /\ entryCalls = 0
  /\ delivered = [i \in Orders |-> 0]
  /\ exhausted = {}
  /\ writeFaults = 0
  /\ replayRuns = 0
  /\ failedFirst = {}
  /\ fault = "none"
  /\ written = <<>>
  /\ entryKinds = {}

\* ---- calling processOrder and returning from it -------------------------

\* processOrder(order, idx) is entered by `who`
Call(order, idx, who) ==
  /\ cur' = order
  /\ retryCount' = idx
  /\ callStart' = idx
  /\ callReqs' = 0
  /\ callKinds' = {}
  /\ callSleeps' = <<>>
  /\ caller' = who
  /\ ret' = "none"
  /\ resp' = NoResp
  /\ pc' = "get"

\* a request for the running call's order is counted
Counted ==
  /\ attempted' = attempted \cup {cur.OrderID}
  /\ entryReqs' = entryReqs + (IF caller = "replay" THEN 1 ELSE 0)

\* p.client.Get(url) has been issued by the running call
Requested(kinds) ==
  /\ callReqs' = callReqs + 1
  /\ callKinds' = callKinds \cup kinds
  /\ entryKinds' = IF caller = "replay" THEN Merge(entryKinds, kinds) ELSE entryKinds
  /\ Counted
  /\ UNCHANGED <<cur, callStart, entryCalls>>

ReturnFirstEnqueueAll(err) ==
  /\ retryQueue' = Append(retryQueue, cur)
  /\ pc' = "scan"
  /\ UNCHANGED <<lineNum, qi, retryAttempts>>

ReturnFirstPrepend(err) ==
  /\ retryQueue' = IF err THEN <<cur>> \o retryQueue ELSE retryQueue
  /\ pc' = "scan"
  /\ UNCHANGED <<lineNum, qi, retryAttempts>>

\* Process: if err := p.processOrder(order, 0); err != nil { append }
ReturnFirst(err) ==
  /\ retryQueue' = IF err THEN Append(retryQueue, cur) ELSE retryQueue
  /\ pc' = "scan"
  /\ UNCHANGED <<lineNum, qi, retryAttempts>>

ReturnReplayRequeue(err) ==
  /\ IF err
       THEN /\ retryAttempts' = retryAttempts + 1
            /\ qi' = qi
            /\ retryQueue' = Append(retryQueue, cur)
       ELSE /\ retryAttempts' = 0
            /\ qi' = qi + 1
            /\ retryQueue' = retryQueue
  /\ pc' = "replay"
  /\ UNCHANGED lineNum

\* processRetryQueue: err -> retryAttempts++ ; success -> break, next order
ReturnReplay(err) ==
  /\ IF err
       THEN /\ retryAttempts' = retryAttempts + 1
            /\ qi' = qi
       ELSE /\ retryAttempts' = 0
            /\ qi' = qi + 1
  /\ pc' = "replay"
  /\ UNCHANGED <<lineNum, retryQueue>>

\* the locals of the processOrder call that has returned are gone, and the
\* counters of the queue entry are reset
Clear ==
  /\ cur' = NoOrder
  /\ retryCount' = 0
  /\ callStart' = 0
  /\ callReqs' = 0
  /\ callKinds' = {}
  /\ callSleeps' = <<>>
  /\ resp' = NoResp
  /\ ret' = "none"
  /\ entryReqs' = 0
  /\ entryCalls' = 0
  /\ entryKinds' = {}

\* the running processOrder returns err (TRUE) or nil (FALSE) to its caller
Return(err) ==
  /\ ret' = IF err THEN "err" ELSE "ok"
  /\ failedFirst' = IF err /\ caller = "first"
                      THEN failedFirst \cup {cur.OrderID}
                      ELSE failedFirst
  /\ caller' = caller
  /\ IF caller = "first" THEN ReturnFirst(err) ELSE ReturnReplay(err)

FinishNoClose(res) ==
  /\ pc' = "done"
  /\ result' = res
  /\ UNCHANGED fileVars

\* Process returns: the deferred Close calls run
Finish(res) ==
  /\ pc' = "done"
  /\ result' = res
  /\ inOpen' = FALSE
  /\ outOpen' = FALSE

\* ---- Process: acquiring the files ---------------------------------------

\* os.Open(p.InputFile) succeeds
OpenInputOK ==
  /\ pc = "open"
  /\ inOpen' = TRUE
  /\ pc' = "create"
  /\ UNCHANGED <<cfgVars, outOpen, output, caller, loopVars, callVars, result,
                 countVars, exhausted, writeFaults, written, replayRuns,
                 failedFirst, fault>>

\* os.Open(p.InputFile) fails: return the error
OpenInputFail ==
  /\ pc = "open"
  /\ pc' = "done"
  /\ result' = "err_open"
  /\ UNCHANGED <<cfgVars, fileVars, output, caller, loopVars, callVars,
                 countVars, exhausted, writeFaults, written, replayRuns,
                 failedFirst>>
  /\ fault' = "open"

\* os.Create(p.OutputFile) succeeds: the output is empty
CreateOutputOK ==
  /\ pc = "create"
  /\ outOpen' = TRUE
  /\ output' = <<>>
  /\ pc' = "scan"
  /\ UNCHANGED <<cfgVars, inOpen, caller, loopVars, callVars, result,
                 countVars, exhausted, writeFaults, written, replayRuns,
                 failedFirst, fault>>

\* os.Create(p.OutputFile) fails: return the error, the input is closed
CreateOutputFail ==
  /\ pc = "create"
  /\ Finish("err_create")
  /\ UNCHANGED <<cfgVars, output, caller, loopVars, callVars,
                 countVars, exhausted, writeFaults, written, replayRuns,
                 failedFirst>>
  /\ fault' = "create"

\* ---- Process: the scan loop ---------------------------------------------

HasLine == pc = "scan" /\ lineNum < Len(input)
Line == input[lineNum + 1]

\* continue: the line is dropped without side effects
Skip ==
  /\ lineNum' = lineNum + 1
  /\ Clear
  /\ UNCHANGED <<cfgVars, fileVars, output, pc, caller, retryQueue, qi,
                 retryAttempts, result, attempted, delivered, exhausted, writeFaults, written,
                 replayRuns,
                 failedFirst, fault>>

\* if strings.TrimSpace(line) == "" { continue }
ScanBlank ==
  /\ HasLine
  /\ IsBlank(Line)
  /\ Skip

ScanMalformedAbort ==
  /\ HasLine
  /\ ~IsBlank(Line)
  /\ Unmarshal(Line, lineNum + 1).err
  /\ lineNum' = lineNum + 1
  /\ Clear
  /\ Finish("err_json")
  /\ UNCHANGED <<cfgVars, output, caller, retryQueue, qi, retryAttempts,
                 attempted, delivered, exhausted, writeFaults, written, replayRuns,
                 failedFirst, fault>>

\* json.Unmarshal fails: warn and continue
ScanMalformed ==
  /\ HasLine
  /\ ~IsBlank(Line)
  /\ Unmarshal(Line, lineNum + 1).err
  /\ Skip

\* decoded, but the filter does not match: nothing happens
ScanFiltered ==
  /\ HasLine
  /\ ~IsBlank(Line)
  /\ ~Unmarshal(Line, lineNum + 1).err
  /\ ~Matches(Unmarshal(Line, lineNum + 1).order)
  /\ Skip

\* decoded and matching: p.processOrder(order, 0)
ScanMatch ==
  /\ HasLine
  /\ ~IsBlank(Line)
  /\ ~Unmarshal(Line, lineNum + 1).err
  /\ Matches(Unmarshal(Line, lineNum + 1).order)
  /\ lineNum' = lineNum + 1
  /\ Call(Unmarshal(Line, lineNum + 1).order, 0, "first")
  /\ UNCHANGED <<cfgVars, fileVars, output, retryQueue, qi, retryAttempts,
                 result, countVars, exhausted, writeFaults, written, replayRuns,
                 failedFirst, fault>>

\* the call p.processRetryQueue(retryQueue) and, for an empty queue, its return
EnterReplay ==
  /\ replayRuns' = replayRuns + 1
  /\ Clear
  /\ IF Len(retryQueue) = 0
       THEN /\ Finish("ok")
            /\ UNCHANGED <<qi, retryAttempts, caller>>
       ELSE /\ pc' = "replay"
            /\ caller' = "replay"
            /\ qi' = 1
            /\ retryAttempts' = 0
            /\ UNCHANGED <<fileVars, result>>
  /\ UNCHANGED <<cfgVars, output, lineNum, retryQueue, attempted, delivered, exhausted,
                 writeFaults, written, failedFirst>>

ScanReadErrorIgnored ==
  /\ pc = "scan"
  /\ EnterReplay
  /\ fault' = "read"

ScanReadErrorReportsQueue ==
  /\ pc = "scan"
  /\ Clear
  /\ Finish("err_read")
  /\ exhausted' = {retryQueue[k].OrderID : k \in 1..Len(retryQueue)}
  /\ UNCHANGED <<cfgVars, output, caller, loopVars, attempted, delivered,
                 writeFaults, written, replayRuns,
                 failedFirst>>
  /\ fault' = "read"

\* scanner.Scan() returns false and scanner.Err() != nil: return the error
ScanReadError ==
  /\ pc = "scan"
  /\ Clear
  /\ Finish("err_read")
  /\ UNCHANGED <<cfgVars, output, caller, loopVars, attempted, delivered, exhausted,
                 writeFaults, written, replayRuns,
                 failedFirst>>
  /\ fault' = "read"

ScanEOFNoReplay ==
  /\ pc = "scan"
  /\ lineNum = Len(input)
  /\ Clear
  /\ Finish("ok")
  /\ UNCHANGED <<cfgVars, output, caller, loopVars, attempted, delivered, exhausted,
                 writeFaults, written, replayRuns,
                 failedFirst, fault>>

\* scanner.Scan() returns false at end of input, scanner.Err() == nil
ScanEOF ==
  /\ pc = "scan"
  /\ lineNum = Len(input)
  /\ EnterReplay
  /\ UNCHANGED fault

\* ---- processRetryQueue --------------------------------------------------

InReplay == pc = "replay" /\ qi <= Len(retryQueue)

ReplayIndexFixed(n) == 0

\* the attempt index processRetryQueue passes: p.processOrder(order, retryAttempts)
ReplayIndex(n) == n

\* inner loop body: p.processOrder(order, retryAttempts)
ReplayCall ==
  /\ InReplay
  /\ ReplayMore(retryAttempts)
  /\ entryCalls' = (IF retryAttempts = 0 THEN 0 ELSE entryCalls) + 1
  /\ entryReqs' = (IF retryAttempts = 0 THEN 0 ELSE entryReqs)
  /\ entryKinds' = (IF retryAttempts = 0 THEN {} ELSE entryKinds)
  /\ Call(retryQueue[qi], ReplayIndex(retryAttempts), "replay")
  /\ UNCHANGED <<cfgVars, fileVars, output, loopVars, result, attempted,
                 delivered, exhausted, writeFaults, written, replayRuns,
                 failedFirst, fault>>

ReplayExhaustedAbort ==
  /\ InReplay
  /\ ~ReplayMore(retryAttempts)
  /\ Clear
  /\ Finish("err_exhausted")
  /\ UNCHANGED <<cfgVars, output, caller, loopVars, attempted, delivered, exhausted,
                 writeFaults, written, replayRuns,
                 failedFirst, fault>>

\* inner loop left without success: if retryAttempts >= p.Retries { Errorf },
\* then the next order of the range loop
ReplayExhausted ==
  /\ InReplay
  /\ ~ReplayMore(retryAttempts)
  /\ exhausted' = IF retryAttempts >= Retries
                    THEN exhausted \cup {retryQueue[qi].OrderID}
                    ELSE exhausted
  /\ qi' = qi + 1
  /\ retryAttempts' = 0
  /\ Clear
  /\ UNCHANGED <<cfgVars, fileVars, output, pc, caller, lineNum, retryQueue,
                 result, attempted, delivered, writeFaults, written, replayRuns,
                 failedFirst, fault>>

\* the range loop is over: processRetryQueue returns, Process returns nil
ReplayDone ==
  /\ pc = "replay"
  /\ qi > Len(retryQueue)
  /\ Clear
  /\ Finish("ok")
  /\ UNCHANGED <<cfgVars, output, caller, loopVars, attempted, delivered, exhausted,
                 writeFaults, written, replayRuns,
                 failedFirst, fault>>

\* ---- processOrder -------------------------------------------------------

TransportErr == [kind |-> "transport", status |-> 0, body |-> <<>>]
Response(s, b) == [kind |-> "response", status |-> s, body |-> b]

\* client.Get fails and retryCount < p.Retries: the call will sleep and recurse
GetTransportRetry ==
  /\ pc = "get"
  /\ CanRetry(retryCount)
  /\ resp' = TransportErr
  /\ Requested({"transport"})
  /\ pc' = "sleep"
  /\ UNCHANGED <<cfgVars, fileVars, output, caller, loopVars, retryCount,
                 callSleeps, result, ret, delivered, exhausted, writeFaults, written,
                 replayRuns,
                 failedFirst, fault>>

\* client.Get fails and the budget is used up: return err
GetTransportFail ==
  /\ pc = "get"
  /\ ~CanRetry(retryCount)
  /\ resp' = TransportErr
  /\ Requested({"transport"})
  /\ Return(TRUE)
  /\ UNCHANGED <<cfgVars, fileVars, output, retryCount, callSleeps, result,
                 delivered, exhausted, writeFaults, written, replayRuns,
                 fault>>

\* time.Sleep(time.Second * time.Duration(retryCount+1)), then
\* p.processOrder(order, retryCount+1)
Sleep ==
  /\ pc = "sleep"
  /\ callSleeps' = Append(callSleeps, Backoff(retryCount))
  /\ retryCount' = retryCount + 1
  /\ pc' = "get"
  /\ UNCHANGED <<cfgVars, fileVars, output, caller, loopVars, cur, callStart,
                 callReqs, callKinds, result, resp, ret, countVars, exhausted,
                 writeFaults, written, replayRuns,
                 failedFirst, fault>>

GetNon2xxWritesBody ==
  /\ pc = "get"
  /\ \E s \in Statuses, b \in Bodies :
       /\ IsNon2xx(s)
       /\ resp' = Response(s, b)
       /\ output' = output \o FormatLine(b)
  /\ Requested({"non2xx"})
  /\ Return(TRUE)
  /\ UNCHANGED <<cfgVars, fileVars, retryCount, callSleeps, result,
                 delivered, exhausted, writeFaults, written, replayRuns,
                 fault>>

\* a response with a status outside 200..299: return an error at once
GetNon2xx ==
  /\ pc = "get"
  /\ \E s \in Statuses, b \in Bodies :
       /\ IsNon2xx(s)
       /\ resp' = Response(s, b)
  /\ Requested({"non2xx"})
  /\ Return(TRUE)
  /\ UNCHANGED <<cfgVars, fileVars, output, retryCount, callSleeps, result,
                 delivered, exhausted, writeFaults, written, replayRuns,
                 fault>>

\* a 2xx response whose body cannot be read: io.ReadAll fails, return an error
GetBodyReadFail ==
  /\ pc = "get"
  /\ \E s \in Statuses, b \in Bodies :
       /\ ~IsNon2xx(s)
       /\ resp' = [Response(s, b) EXCEPT !.kind = "unreadable"]
  /\ Requested({"read"})
  /\ Return(TRUE)
  /\ UNCHANGED <<cfgVars, fileVars, output, retryCount, callSleeps, result,
                 delivered, exhausted, writeFaults, written, replayRuns,
                 fault>>

\* a 2xx response whose line cannot be written: Fprintf fails after writing
\* a proper prefix of the line, return an error
GetWriteFail ==
  /\ pc = "get"
  /\ writeFaults < MaxWriteFaults
  /\ \E s \in Statuses, b \in Bodies :
       /\ ~IsNon2xx(s)
       /\ resp' = [Response(s, b) EXCEPT !.kind = "unwritten"]
       /\ \E w \in ProperPrefixes(FormatLine(b)) : output' = output \o w
  /\ writeFaults' = writeFaults + 1
  /\ Requested({"write"})
  /\ Return(TRUE)
  /\ UNCHANGED <<cfgVars, fileVars, retryCount, callSleeps, result,
                 delivered, exhausted, written, replayRuns,
                 fault>>

GetSuccessPrepend ==
  /\ pc = "get"
  /\ \E s \in Statuses, b \in Bodies :
       /\ ~IsNon2xx(s)
       /\ resp' = Response(s, b)
       /\ output' = FormatLine(b) \o output
       /\ written' = Append(written, Delivery(cur.OrderID, b, caller))
  /\ delivered' = [delivered EXCEPT ![cur.OrderID] = @ + 1]
  /\ Requested({})
  /\ Return(FALSE)
  /\ UNCHANGED <<cfgVars, fileVars, retryCount, callSleeps, result,
                 exhausted, writeFaults, replayRuns,
                 fault>>

\* a 2xx response, read and written: return nil
GetSuccess ==
  /\ pc = "get"
  /\ \E s \in Statuses, b \in Bodies :
       /\ ~IsNon2xx(s)
       /\ resp' = Response(s, b)
       /\ output' = output \o FormatLine(b)
       /\ written' = Append(written, Delivery(cur.OrderID, b, caller))
  /\ delivered' = [delivered EXCEPT ![cur.OrderID] = @ + 1]
  /\ Requested({})
  /\ Return(FALSE)
  /\ UNCHANGED <<cfgVars, fileVars, retryCount, callSleeps, result,
                 exhausted, writeFaults, replayRuns,
                 fault>>

\* ---- the program --------------------------------------------------------

Next ==
  \/ OpenInputOK
  \/ OpenInputFail
  \/ CreateOutputOK
  \/ CreateOutputFail
  \/ ScanBlank
  \/ ScanMalformed
  \/ ScanFiltered
  \/ ScanMatch
  \/ ScanReadError
  \/ ScanEOF
  \/ ReplayCall
  \/ ReplayExhausted
  \/ ReplayDone
  \/ GetTransportRetry
  \/ GetTransportFail
  \/ Sleep
  \/ GetNon2xx
  \/ GetBodyReadFail
  \/ GetWriteFail
  \/ GetSuccess

Spec == Init /\ [][Next]_vars

\* The single thread always takes its next step: every blocking call (Get under
\* client.Timeout, Sleep, Scan) returns.
FairSpec == Spec /\ WF_vars(Next)

\* ---- properties ---------------------------------------------------------

\* line i of the input decodes to an order
IsOrderLine(i) == input[i].kind = "order"
\* line i decodes to an order that passes the filter
IsMatchingLine(i) ==
  IsOrderLine(i) /\ input[i].Symbol = FilterSymbol /\ input[i].Side = FilterSide
\* a processOrder call has just returned to its caller
Returned == ret # "none"
\* the requests a call entered at index i makes when every Get fails at
\* transport level, and the seconds it sleeps between them
TransportReqs(i) == Retries - i + 1
TransportSleeps(i) == [k \in 1..(Retries - i) |-> i + k]
\* the most requests queue replay can make for one entry
ReplayRequestBound == ((Retries + 1) * (Retries + 2)) \div 2 - 1

\* C1: a first-pass processOrder call whose every attempt met a retryable
\* outcome (transport failure or non-2xx status) returns its failure after
\* exactly Retries + 1 requests, and the delays it slept grow strictly.
C1_FirstPassBudget ==
  (ret = "err" /\ caller = "first" /\ callKinds \subseteq {"transport", "non2xx"})
    => /\ callReqs = Retries + 1
       /\ Len(callSleeps) = Retries
       /\ StrictlyIncreasing(callSleeps)

\* C2: a processOrder call whose every attempt fails makes the same requests
\* and the same sleeps whether the failures are transport errors or non-2xx
\* statuses: those of the transport case, for its attempt index.
C2_Non2xxLikeTransport ==
  (ret = "err" /\ callKinds \in {{"transport"}, {"non2xx"}})
    => /\ callReqs = TransportReqs(callStart)
       /\ callSleeps = TransportSleeps(callStart)

\* C3 as stated: an order that failed its first pass is in the retry queue
\* exactly once, and replay makes at most Retries requests for it.
C3_ReplayAtMostBudgetRequests ==
  /\ \A i \in Orders :
       Occurrences(retryQueue, i) = (IF i \in failedFirst THEN 1 ELSE 0)
  /\ entryReqs <= Retries

\* C3 (amended): an order that failed its first pass is in the retry queue
\* exactly once, and replay makes at most Retries processOrder calls for it;
\* the call at index k makes at most Retries - k + 1 requests (one when no
\* Get fails at transport level), so replay makes at most
\* (Retries+1)(Retries+2)/2 - 1 requests for the order.
C3_ReplayAtMostBudgetCalls ==
  /\ \A i \in Orders :
       Occurrences(retryQueue, i) = (IF i \in failedFirst THEN 1 ELSE 0)
  /\ entryCalls <= Retries
  /\ entryReqs <= ReplayRequestBound
  /\ (caller = "replay" /\ (pc \in {"get", "sleep"} \/ Returned))
       => /\ callStart = entryCalls - 1
          /\ callReqs <= Retries - callStart + 1
          /\ ("transport" \notin callKinds => callReqs <= 1)

C3_Witness ==
  /\ pc = "replay"
  /\ Retries >= 2
  /\ retryAttempts = Retries
  /\ entryCalls = Retries
  /\ entryReqs = ReplayRequestBound
  /\ Occurrences(retryQueue, cur.OrderID) = 1

\* C4: for a line that decodes to an order whose symbol or side differs from
\* the filter, no request is ever made, in the first pass or in replay, and
\* the order is never in the retry queue.
C4_FilteredNeverAttempted ==
  \A i \in Orders :
    (IsOrderLine(i) /\
       (input[i].Symbol # FilterSymbol \/ input[i].Side # FilterSide))
      => /\ i \notin attempted
         /\ cur.OrderID # i
         /\ Occurrences(retryQueue, i) = 0
         /\ delivered[i] = 0

C4_Witness ==
  /\ pc = "done"
  /\ result = "ok"
  /\ \E i, j \in Orders :
       /\ IsOrderLine(i)
       /\ input[i].Symbol = FilterSymbol
       /\ input[i].Side # FilterSide
       /\ i \notin attempted
       /\ j \in attempted

\* C5: a line that is not valid JSON is skipped and the run goes on: the step
\* that consumes it makes no request, no queue entry and no write and leaves
\* Process running at the scan loop; no order of that line is ever attempted;
\* Process returns an error only after an open, create or read failure, and
\* when it returns nil every line has been read.
C5_MalformedSkipped ==
  /\ [](\A i \in Orders :
          input[i].kind = "malformed"
            => /\ i \notin attempted
               /\ cur.OrderID # i
               /\ Occurrences(retryQueue, i) = 0
               /\ delivered[i] = 0)
  /\ [](result \notin {"none", "ok"} => fault # "none")
  /\ [](result = "ok" => lineNum = Len(input))
  /\ [][(/\ pc = "scan"
         /\ lineNum < Len(input)
         /\ input[lineNum + 1].kind = "malformed"
         /\ lineNum' = lineNum + 1)
          => /\ pc' = "scan"
             /\ result' = "none"
             /\ attempted' = attempted
             /\ retryQueue' = retryQueue
             /\ output' = output]_vars

C5_Witness ==
  /\ pc = "done"
  /\ result = "ok"
  /\ \E i, j \in Orders :
       /\ input[i].kind = "malformed"
       /\ i < j
       /\ delivered[j] = 1

\* C6 as stated: whenever a Get receives a response with a status in 200..299,
\* exactly one line, the body followed by a newline, is appended to the
\* output and processOrder returns nil.
C6_SuccessWritesOneLine ==
  [][(pc = "get" /\ resp'.kind \in {"response", "unreadable", "unwritten"}
        /\ resp'.status \in 200..299)
       => /\ output' = output \o resp'.body \o <<NL>>
          /\ CountNL(output') = CountNL(output) + 1
          /\ ret' = "ok"]_vars

\* C6 (amended): whenever a Get receives a response with a status in 200..299
\* whose body is read in full and whose write succeeds, exactly the body
\* followed by one newline is appended to the output (one line when the body
\* holds no newline) and processOrder returns nil; when reading the body or
\* the write fails processOrder returns an error, and a failed read writes
\* nothing.
C6_SuccessAppendsBodyAndNewline ==
  /\ [][(pc = "get" /\ resp'.kind = "response" /\ resp'.status \in 200..299)
          => /\ output' = output \o resp'.body \o <<NL>>
             /\ (CountNL(resp'.body) = 0
                   => CountNL(output') = CountNL(output) + 1)
             /\ ret' = "ok"]_vars
  /\ [][(pc = "get" /\ resp'.kind \in {"unreadable", "unwritten"})
          => /\ ret' = "err"
             /\ (resp'.kind = "unreadable" => output' = output)]_vars

C6_Witness ==
  /\ ret = "ok"
  /\ resp.kind = "response"
  /\ resp.status = 299
  /\ resp.body = <<"O">>
  /\ output = <<"O", NL>>

\* C7: an exhausted order never fails the run: reporting it leaves Process
\* running and moves replay to the next queue entry; Process returns an error
\* only after an open, create or read failure; and when Process returns nil,
\* for any Retries >= 0, the queue was replayed to its end and every order
\* that failed its first pass was delivered in replay or reported exhausted.
C7_ExhaustedNotFatal ==
  /\ [](result \notin {"none", "ok"}
          => (fault # "none" /\ result \in {"err_open", "err_create", "err_read"}))
  /\ [](exhausted \subseteq failedFirst)
  /\ []((pc = "done" /\ result = "ok")
          => /\ replayRuns = 1
             /\ (retryQueue # <<>> => qi = Len(retryQueue) + 1)
             /\ \A i \in failedFirst :
                  (delivered[i] = 0) <=> (i \in exhausted))
  /\ [][exhausted' # exhausted
          => /\ pc' = "replay"
             /\ result' = "none"
             /\ qi' = qi + 1
             /\ retryQueue' = retryQueue]_vars

C7_Witness ==
  /\ pc = "done"
  /\ result = "ok"
  /\ Retries > 0
  /\ Cardinality(exhausted) = 2
  /\ exhausted = attempted

\* every matching order of the input was attempted and ended in exactly one
\* of Delivered (its line written) and Exhausted (reported)
AllMatchingSettled ==
  \A i \in Orders :
    IsMatchingLine(i)
      => /\ i \in attempted
         /\ (delivered[i] = 1) # (i \in exhausted)

\* C8 as stated: once the input and the output were opened, the run ends with
\* every matching order attempted and either Delivered or Exhausted.
C8_EveryOrderSettled ==
  (pc = "done" /\ result \notin {"err_open", "err_create"}) => AllMatchingSettled

\* C8 (amended): every run terminates, and a run in which the input and the
\* output were opened and the scanner reported no read error ends with every
\* matching order attempted at least once and in exactly one of Delivered
\* and Exhausted.
C8_EveryOrderSettledUnlessReadError ==
  /\ <>(pc = "done")
  /\ []((pc = "done" /\ fault = "none") => (result = "ok" /\ AllMatchingSettled))

C8_Witness ==
  /\ pc = "done"
  /\ fault = "none"
  /\ \E i, j \in Orders :
       /\ delivered[i] = 1
       /\ i \notin exhausted
       /\ j \in exhausted
       /\ delivered[j] = 0

\* C9: an I/O failure is fatal: once os.Open, os.Create or the scanner has
\* reported a failure, Process has returned the matching error and no request
\* is made from then on; after a failed open or create no request was ever
\* made.
C9_IOFailureFatal ==
  /\ [](fault # "none" => pc = "done")
  /\ [](fault = "open" => result = "err_open")
  /\ [](fault = "create" => result = "err_create")
  /\ [](fault = "read" => result = "err_read")
  /\ [](fault \in {"open", "create"} => (attempted = {} /\ output = <<>>))
  /\ [][fault # "none" => (attempted' = attempted /\ pc' # "get")]_vars
  /\ [][fault' # fault => (attempted' = attempted /\ pc' = "done")]_vars

C9_Witness ==
  /\ fault = "read"
  /\ result = "err_read"
  /\ attempted # {}
  /\ retryQueue # <<>>
  /\ lineNum < Len(input)

\* C10: a matching order is attempted by the step that reads its line; replay
\* starts once, after the whole input is consumed, and from then on no
\* first-pass request is made; the queue holds no order twice, is not changed
\* by replay, and the replay loop never goes back to an earlier entry.
C10_ReplayOnceAfterInput ==
  /\ [](replayRuns <= 1)
  /\ [](caller = "replay" => (lineNum = Len(input) /\ replayRuns = 1))
  /\ []((pc \in {"get", "sleep"} /\ caller = "first")
          => (replayRuns = 0 /\ cur.OrderID = lineNum))
  /\ [](\A i \in Orders : Occurrences(retryQueue, i) <= 1)
  /\ [][(pc = "scan" /\ lineNum' = lineNum + 1 /\ IsMatchingLine(lineNum + 1))
          => /\ pc' = "get"
             /\ caller' = "first"
             /\ cur'.OrderID = lineNum + 1]_vars
  /\ [][caller = "replay"
          => /\ caller' = "replay"
             /\ retryQueue' = retryQueue
             /\ qi' >= qi
             /\ lineNum' = lineNum]_vars

C10_Witness ==
  /\ pc = "get"
  /\ caller = "replay"
  /\ qi = 2
  /\ callReqs = 1
  /\ Len(retryQueue) = 2

\* the lines of a byte sequence: the segments its newlines end, and the
\* unterminated rest if there is one
RECURSIVE SplitLines(_, _)
SplitLines(s, acc) ==
  IF s = <<>> THEN (IF acc = <<>> THEN <<>> ELSE <<acc>>)
  ELSE IF s[1] = NL THEN <<acc>> \o SplitLines(Tail(s), <<>>)
  ELSE SplitLines(Tail(s), Append(acc, s[1]))
OutputLines == SplitLines(output, <<>>)
\* the bodies of the deliveries w, each followed by a newline
RECURSIVE Concat(_)
Concat(w) ==
  IF w = <<>> THEN <<>> ELSE w[1].body \o <<NL>> \o Concat(Tail(w))
IsPrefix(s, t) == Len(s) <= Len(t) /\ SubSeq(t, 1, Len(s)) = s
\* the position of order id in the retry queue
QueuePos(id) == CHOOSE k \in 1..Len(retryQueue) : retryQueue[k].OrderID = id
\* deliveries complete first pass first, in input order, then replay, in
\* queue order
InCompletionOrder ==
  \A j, k \in 1..Len(written) :
    j < k =>
      /\ (written[j].pass = "replay" => written[k].pass = "replay")
      /\ ((written[j].pass = "first" /\ written[k].pass = "first")
            => written[j].OrderID < written[k].OrderID)
      /\ ((written[j].pass = "replay" /\ written[k].pass = "replay")
            => QueuePos(written[j].OrderID) < QueuePos(written[k].OrderID))

\* C11 as stated: the sequence of lines of the output equals the sequence of
\* successful deliveries in the order they completed, first-pass successes in
\* input order followed by replay successes in queue order.
C11_OutputLinesAreDeliveries ==
  /\ OutputLines = [k \in 1..Len(written) |-> written[k].body]
  /\ InCompletionOrder

\* C11 (amended): the output only grows, what is written is never changed;
\* deliveries complete first pass first in input order, then replay in queue
\* order; as long as no write has failed the output is the concatenation, in
\* that order, of every delivered body followed by a newline, which is one
\* line per delivery when no delivered body holds a newline.
C11_OutputAppendsInCompletionOrder ==
  /\ [][IsPrefix(output, output') /\ IsPrefix(written, written')]_vars
  /\ []InCompletionOrder
  /\ [](writeFaults = 0 => output = Concat(written))
  /\ []((writeFaults = 0 /\ \A k \in 1..Len(written) : CountNL(written[k].body) = 0)
          => OutputLines = [k \in 1..Len(written) |-> written[k].body])

C11_Witness ==
  /\ pc = "done"
  /\ writeFaults = 0
  /\ Len(written) = 2
  /\ written[1].OrderID = 2
  /\ written[1].pass = "first"
  /\ written[2].OrderID = 1
  /\ written[2].pass = "replay"
  /\ OutputLines = <<written[1].body, written[2].body>>

\* C12: both handles are released on every exit path: when Process has
\* returned (nil, or the error of a failed open, of a failed create or of a
\* read failure) no handle is open; the return step closes every handle that
\* was open; and between the successful create and the return both are held.
C12_HandlesReleased ==
  /\ [](pc = "done" => (~inOpen /\ ~outOpen))
  /\ [](pc = "open" => (~inOpen /\ ~outOpen))
  /\ [](pc = "create" => (inOpen /\ ~outOpen))
  /\ [](pc \in {"scan", "get", "sleep", "replay"} => (inOpen /\ outOpen))
  /\ [][(pc # "done" /\ pc' = "done")
          => /\ ~inOpen' /\ ~outOpen'
             /\ result' \in {"ok", "err_open", "err_create", "err_read"}]_vars

C12_Witness ==
  /\ pc = "done"
  /\ result = "err_read"
  /\ lineNum > 0
  /\ output # <<>>
  /\ ~inOpen
  /\ ~outOpen

\* C13 as stated: every replay invocation of processOrder for a queued order
\* is made at the same attempt index as the one before it.
C13_ReplayIndexFixed ==
  [][(pc = "replay" /\ retryAttempts >= 1 /\ pc' = "get")
       => callStart' = callStart]_vars

\* C13 (amended): the replay loop passes its own counter on as the attempt
\* index: the k-th replay invocation for a queued order (k = 0, 1, ...) runs
\* at index k, one more than the invocation before it, so an invocation whose
\* Gets all fail at transport level makes Retries - k + 1 requests and sleeps
\* k+1, ..., Retries seconds: later invocations retry less and wait longer.
C13_ReplayIndexIsLoopCounter ==
  /\ [][(pc = "replay" /\ pc' = "get")
          => /\ callStart' = retryAttempts
             /\ retryCount' = retryAttempts
             /\ (retryAttempts >= 1 => callStart' = callStart + 1)]_vars
  /\ []((caller = "replay" /\ pc \in {"get", "sleep"})
          => (callStart = retryAttempts /\ retryCount >= retryAttempts))
  /\ []((caller = "replay" /\ ret = "err" /\ callKinds = {"transport"})
          => /\ callReqs = TransportReqs(callStart)
             /\ callSleeps = TransportSleeps(callStart))

C13_Witness ==
  /\ caller = "replay"
  /\ ret = "err"
  /\ Retries = 2
  /\ callStart = 1
  /\ callKinds = {"transport"}
  /\ callReqs = 2
  /\ callSleeps = <<2>>

\* C14: on a retryable failure (a transport error or a status outside
\* 200..299) at attempt index i, processOrder sleeps i + 1 seconds and tries
\* again at index i + 1 when i < Retries, and returns the failure without a
\* sleep or a further request when i >= Retries.
C14_RetryableSleepsLinear ==
  /\ [][(pc = "get" /\ (\/ resp'.kind = "transport"
                        \/ (resp'.kind = "response" /\ resp'.status \notin 200..299)))
          => IF retryCount < Retries
               THEN pc' = "sleep" /\ ret' = "none"
               ELSE ret' = "err" /\ pc' # "sleep" /\ callSleeps' = callSleeps]_vars
  /\ [][pc = "sleep"
          => /\ callSleeps' = Append(callSleeps, retryCount + 1)
             /\ retryCount' = retryCount + 1
             /\ pc' = "get"]_vars

\* the step receives a response with a status in 200..299
Gets2xx == pc = "get" /\ resp'.kind # "transport" /\ resp'.status \in 200..299

\* C15 as stated: every line of the output is the body of a response with a
\* status in 200..299 (any such body is one of Bodies).
C15_LinesAre2xxBodies ==
  \A k \in 1..Len(OutputLines) : OutputLines[k] \in Bodies

\* C15 (amended): the body of a response with a status outside 200..299 is
\* never written: the output changes only in a step that receives a response
\* with a status in 200..299 for a matching order, and what that step appends
\* is the body followed by a newline, or a part of it when the write fails;
\* every delivery is one such response for a matching order, and when no
\* write has failed and no delivered body holds a newline the output has one
\* line per delivery, each the body of its response.
C15_Non2xxBodyNeverWritten ==
  /\ [][(pc = "get" /\ resp'.kind = "response" /\ resp'.status \notin 200..299)
          => (output' = output /\ written' = written /\ ret' = "err")]_vars
  /\ [][output' # output
          => /\ Gets2xx
             /\ Matches(cur)
             /\ IsPrefix(output' , output \o resp'.body \o <<NL>>)
             /\ (ret' = "ok" => output' = output \o resp'.body \o <<NL>>)]_vars
  /\ [][written' # written
          => (Gets2xx /\ Len(written') = Len(written) + 1
                /\ written'[Len(written')].body = resp'.body)]_vars
  /\ [](\A k \in 1..Len(written) : IsMatchingLine(written[k].OrderID))
  /\ []((writeFaults = 0 /\ \A k \in 1..Len(written) : CountNL(written[k].body) = 0)
          => /\ Len(OutputLines) = Len(written)
             /\ \A k \in 1..Len(OutputLines) : OutputLines[k] = written[k].body)

C15_Witness ==
  /\ ret = "err"
  /\ resp.kind = "response"
  /\ resp.status = 300
  /\ resp.body = <<"O">>
  /\ caller = "replay"
  /\ output = <<>>

\* the order of input line i
OrderOf(i) == [OrderID |-> i, Symbol |-> input[i].Symbol, Side |-> input[i].Side]
\* the ids of failedFirst in input order
RECURSIVE Ascending(_)
Ascending(S) ==
  IF S = {} THEN <<>>
  ELSE LET m == CHOOSE x \in S : \A y \in S : x <= y
       IN <<m>> \o Ascending(S \ {m})

\* C16: at every point the retry queue holds exactly the matching orders
\* whose first-pass processOrder call returned a failure, in input order, one
\* entry per such line; in the first pass it changes only by an append, made
\* by the step in which that call returns its failure; replay never changes
\* it, so an order that fails in replay is not put in it again.
C16_QueueAppendOnly ==
  /\ [](retryQueue = [k \in 1..Cardinality(failedFirst)
                        |-> OrderOf(Ascending(failedFirst)[k])])
  /\ [](\A k \in 1..Len(retryQueue) : IsMatchingLine(retryQueue[k].OrderID))
  /\ [][retryQueue' # retryQueue
          => /\ caller = "first"
             /\ pc = "get"
             /\ ret' = "err"
             /\ replayRuns = 0
             /\ retryQueue' = Append(retryQueue, cur)]_vars
  /\ [][(caller = "first" /\ pc = "get" /\ ret' = "err")
          => retryQueue' = Append(retryQueue, cur)]_vars
  /\ [][(caller = "replay" \/ replayRuns > 0) => retryQueue' = retryQueue]_vars

C16_Witness ==
  /\ caller = "replay"
  /\ ret = "err"
  /\ retryAttempts = 2
  /\ Len(retryQueue) = 2
  /\ retryQueue[1].OrderID = 1
  /\ retryQueue[2].OrderID = 2
  /\ qi = 2

MatchingLines == {i \in Orders : IsMatchingLine(i)}

\* C17 as stated: each matching input line contributes at most one line to
\* the output (and the other lines none), so the output never has more lines
\* than the input has matching lines.
C17_OneLinePerOrder == Len(OutputLines) <= Cardinality(MatchingLines)

\* C17 (amended): each matching input line is delivered at most once, that
\* is at most one body followed by a newline is written for it, which is one
\* line when no write has failed and no written body holds a newline; once an
\* order is delivered no request is made for it: a first-pass success is not
\* put in the queue, and a replay success ends the replay loop of that order,
\* which is not reported exhausted.
C17_DeliveredAtMostOnce ==
  /\ [](\A i \in Orders : delivered[i] <= 1)
  /\ []((writeFaults = 0 /\ \A k \in 1..Len(written) : CountNL(written[k].body) = 0)
          => /\ Len(OutputLines) = Len(written)
             /\ Len(OutputLines) <= Cardinality(MatchingLines))
  /\ [][(pc = "get" /\ callReqs' = callReqs + 1) => delivered[cur.OrderID] = 0]_vars
  /\ [](\A i \in Orders :
          delivered[i] = 1
            => /\ i \notin exhausted
               /\ (cur.OrderID = i => pc \notin {"get", "sleep"})
               /\ (i \notin failedFirst => Occurrences(retryQueue, i) = 0)
               /\ (i \in failedFirst => (replayRuns = 1 /\ qi >= QueuePos(i))))
  /\ [][(pc = "get" /\ ret' = "ok")
          => /\ delivered' = [delivered EXCEPT ![cur.OrderID] = 1]
             /\ exhausted' = exhausted
             /\ (caller = "first" => retryQueue' = retryQueue)
             /\ (caller = "replay"
                   => (qi' = qi + 1 /\ retryAttempts' = 0 /\ pc' = "replay"))]_vars

C17_Witness ==
  /\ caller = "replay"
  /\ ret = "ok"
  /\ Retries = 2
  /\ entryCalls = 2
  /\ delivered[cur.OrderID] = 1
  /\ cur.OrderID = 1
  /\ qi = 2
  /\ Len(retryQueue) = 2

\* the requests of the first j replay invocations for one queue entry when
\* every Get fails at transport level
RECURSIVE TransportSum(_)
TransportSum(j) == IF j = 0 THEN 0 ELSE TransportSum(j - 1) + TransportReqs(j - 1)

QueuedIds == {retryQueue[k].OrderID : k \in 1..Len(retryQueue)}

\* C19: when the scanner reports a read error with orders in the retry
\* queue, Process returns the error without calling processRetryQueue: the
\* step changes neither the queue nor the output, no replay request and no
\* report is ever made, and the queued orders end neither delivered nor
\* reported exhausted.
C19_ReadErrorSkipsReplay ==
  /\ [](fault = "read"
          => /\ pc = "done"
             /\ result = "err_read"
             /\ replayRuns = 0
             /\ caller # "replay"
             /\ entryReqs = 0
             /\ entryCalls = 0
             /\ exhausted = {}
             /\ QueuedIds = failedFirst
             /\ \A i \in QueuedIds : delivered[i] = 0 /\ i \notin exhausted)
  /\ [][fault' = "read"
          => /\ retryQueue' = retryQueue
             /\ output' = output
             /\ attempted' = attempted
             /\ delivered' = delivered
             /\ exhausted' = exhausted
             /\ replayRuns' = replayRuns]_vars

C19_Witness ==
  /\ fault = "read"
  /\ pc = "done"
  /\ lineNum = Len(input)
  /\ Len(retryQueue) = 2
  /\ written = <<>>
====
